---------------------------- MODULE Spec2Model ----------------------------
(***************************************************************************)
(* State-machine model of src/main.py (service ortelius-ms-dep-pkg-r):     *)
(* one request to GET /msapi/deppkg handled by getCompPkgDeps.             *)
(*                                                                         *)
(* Encoding of Python values                                               *)
(*   str            a sequence of tokens; a token is one character where   *)
(*                  the code looks inside the string (deptype, purl) and   *)
(*                  an opaque chunk elsewhere.  "" is << >>, + is \o.      *)
(*   Optional[T]    a set with at most one element: None is {}, v is {v}.  *)
(*   dict           a function whose DOMAIN is the set of keys.            *)
(*   list           a sequence.                                            *)
(*                                                                         *)
(* External collaborators (validator, database, license registry) answer   *)
(* nondeterministically: every call into them either returns or raises.    *)
(* A database call raises either an error of the classes the retry clause  *)
(* names (InterfaceError, OperationalError) or any other exception.        *)
(***************************************************************************)
EXTENDS Integers, Sequences, FiniteSets, TLC

\* ------------------------------------------------------------------ bounds
\* Largest number of rows the dependency query returns.
MaxRows == 2

\* ------------------------------------------------------- program constants
db_conn_retry == 3

HTTP_200_OK == 200
HTTP_401_UNAUTHORIZED == 401
HTTP_422_UNPROCESSABLE == 422
HTTP_500_INTERNAL_SERVER_ERROR == 500
HTTP_503_SERVICE_UNAVAILABLE == 503

service_name == <<"ortelius-ms-dep-pkg-r">>

\* ----------------------------------------------------------------- strings
None == {}
Some(v) == {v}
Val(o) == CHOOSE v \in o : TRUE

LICENSE == <<"l", "i", "c", "e", "n", "s", "e">>
CVE == <<"c", "v", "e">>
SPDX_URL == <<"https://spdx.org/licenses/">>
OSV_URL == <<"https://osv.dev/vulnerability/">>

Whitespace == {" ", "\t"}

\* str.strip(): leading and trailing whitespace removed
RECURSIVE lstrip(_)
lstrip(s) == IF s # <<>> /\ Head(s) \in Whitespace THEN lstrip(Tail(s)) ELSE s

RECURSIVE rstrip(_)
rstrip(s) ==
    IF s # <<>> /\ s[Len(s)] \in Whitespace
    THEN rstrip(SubSeq(s, 1, Len(s) - 1))
    ELSE s

strip(s) == rstrip(lstrip(s))

\* Python truthiness of an Optional[str]: None and "" are false
Truthy(o) == o # None /\ Val(o) # <<>>

\* mutant: the strip() is dropped
isBlank_NoStrip(myString) == ~Truthy(myString)

\* def isBlank(myString): return not (myString and myString.strip())
isBlank(myString) == ~(Truthy(myString) /\ strip(Val(myString)) # <<>>)

\* c in s
Contains(s, c) == \E i \in 1..Len(s) : s[i] = c

\* s.split(c)[0]: the part of s before the first c (all of s without c)
RECURSIVE SplitFirst(_, _)
SplitFirst(s, c) ==
    IF s = <<>> \/ Head(s) = c THEN <<>> ELSE <<Head(s)>> \o SplitFirst(Tail(s), c)

IsPrefix(p, s) == Len(p) <= Len(s) /\ SubSeq(s, 1, Len(p)) = p

\* re.match of the pattern "(?:license|cve)" (Query(..., regex=...)): the
\* pattern is matched at the start of the value and is not anchored at its end
RegexMatch(value) == IsPrefix(LICENSE, value) \/ IsPrefix(CVE, value)

\* ------------------------------------------------------------ request inputs
\* deptype values a client may send
DepTypes ==
    { LICENSE, CVE,
      LICENSE \o <<"x">>, CVE \o <<"2">>, <<"x">> \o CVE,
      <<"l", "i", "c">>, <<>> }

\* Optional[int] query parameters
CompIds == {None, Some(42)}
AppIds == {None, Some(7)}

\* ---------------------------------------------------------- store contents
URL_MIT == SPDX_URL \o <<"MIT.html">>
URL_BSD == SPDX_URL \o <<"BSD-3-Clause.html">>

DepRow(pn, pv, n, u, p) ==
    [ packagename |-> pn, packageversion |-> pv, name |-> n, url |-> u,
      summary |-> <<>>, fullcompname |-> <<"GLOBAL.app.comp">>,
      purl |-> p, pkgtype |-> <<"pypi">> ]

\* rows of dm_componentdeps a dependency query may return
DepRows ==
    { DepRow(<<"flask">>, <<"1.0">>, <<"MIT">>, Some(URL_MIT), None),
      DepRow(<<"flask">>, <<"1.0">>, <<"MIT">>, Some(URL_BSD),
             Some(<<"p", "?", "q">>)),
      DepRow(<<"jinja">>, <<"2.0">>, <<"BSD">>, Some(<<>>), Some(<<" ">>)),
      DepRow(<<"jinja">>, <<"2.0">>, <<"BSD">>, None, Some(<<"p">>)),
      DepRow(<<"click">>, <<"3.0">>, <<"BSD">>, Some(URL_BSD),
             Some(<<"?", "q">>)),
      DepRow(<<"click">>, <<"3.0">>, <<"MIT">>, Some(URL_MIT), Some(<<>>)) }

RECURSIVE SeqsUpTo(_, _)
SeqsUpTo(S, n) ==
    IF n = 0 THEN {<<>>}
    ELSE LET shorter == SeqsUpTo(S, n - 1)
         IN  shorter \cup {Append(q, x) : q \in shorter, x \in S}

Vuln(i, pn, pv, p, r) ==
    [ id |-> i, summary |-> <<"summary of ">> \o i, risklevel |-> r,
      packagename |-> pn, packageversion |-> pv, purl |-> p ]

\* the table dm_vulns, in the order the store returns its records
dm_vulns ==
    << Vuln(<<"OSV-1">>, <<"flask">>, <<"1.0">>, <<"p">>, <<"high">>),
       Vuln(<<"OSV-2">>, <<"jinja">>, <<"2.0">>, <<"p">>, <<"low">>),
       Vuln(<<"OSV-3">>, <<"jinja">>, <<"2.0">>, <<"p", "?", "q">>, <<"low">>),
       Vuln(<<"OSV-4">>, <<"flask">>, <<"1.0">>, <<>>, <<"medium">>) >>

\* ------------------------------------------------------------------- state
VARIABLES
    deptype,        \* request: query parameter deptype
    compid,         \* request: Optional[int] query parameter compid
    appid,          \* request: Optional[int] query parameter appid
    db,             \* store: the rows the dependency query returns
    pc,             \* position of the request in the handler
    status,         \* HTTP status of the response (0: no response yet)
    detail,         \* the response's detail string (error responses)
    data,           \* the response's data list (Some(list) on 200)
    attempt,        \* local attempt
    response_data,  \* local response_data
    valid_url,      \* local valid_url (dict: license name -> url)
    rows,           \* local rows
    idx,            \* position of the for loop over rows (next row)
    sql,            \* local sql of the current attempt
    connected,      \* a pooled connection is held (inside the with block)
    authCalls,      \* history: calls to the validator
    authResult,     \* history: what the validator answered ("": not called)
    dbAttempts,     \* history: engine.connect() calls
    sqlLog,         \* history: statements sent with cursor.execute
    vLog,           \* history: secondary queries of the current attempt
    headLog,        \* history: HEAD requests of the whole request
    sleeps,         \* history: sleep(0.2) calls
    outcomes,       \* history: how each finished database attempt ended
    fresh,          \* history: the entries the current attempt appended
    health_body,    \* /health: the response body (None: no response)
    probe,          \* /health history: how the liveness probe ended
    inflight,       \* concurrent requests: each request's locals and response
    alone           \* the same requests, each run by itself on the same answers

req == <<deptype, compid, appid, db>>
locals == <<attempt, response_data, valid_url, rows, idx, sql, connected>>
resp == <<status, detail, data>>
hist == <<authCalls, authResult, dbAttempts, sqlLog, vLog, headLog, sleeps, outcomes,
         fresh>>
hvars == <<health_body, probe>>
cvars == <<inflight, alone>>
vars == <<req, pc, resp, locals, hist, hvars, cvars>>

EmptyDict == [n \in {} |-> <<>>]

\* d[k] = v
DictSet(d, k, v) == [n \in DOMAIN d \cup {k} |-> IF n = k THEN v ELSE d[n]]

\* outcomes of a call into the database driver: it returns, raises an error
\* of a class named by "except (InterfaceError, OperationalError)", or raises
\* any other exception
E_OK == "ok"
E_TRANSIENT == "InterfaceError/OperationalError"
E_OTHER == "Exception"
DbOutcomes == {E_OK, E_TRANSIENT, E_OTHER}

\* outcomes of a call to the validator: a status code, no result, an exception
AuthOutcomes == {"200", "403", "None", "raise"}

\* outcomes of requests.head(url): a status code or an exception
HeadOutcomes == {"200", "404", "raise"}

\* nothing has run yet: no response, no local assigned, no call made
HandlerEntry ==
    /\ health_body = None
    /\ probe = ""
    /\ status = 0
    /\ detail = <<>>
    /\ data = None
    /\ attempt = 0
    /\ response_data = <<>>
    /\ valid_url = EmptyDict
    /\ rows = <<>>
    /\ idx = 0
    /\ sql = <<>>
    /\ connected = FALSE
    /\ authCalls = 0
    /\ authResult = ""
    /\ dbAttempts = 0
    /\ sqlLog = <<>>
    /\ vLog = <<>>
    /\ headLog = <<>>
    /\ sleeps = 0
    /\ outcomes = <<>>
    /\ fresh = <<>>

\* a request arrives at one of the two routes: GET /msapi/deppkg with its
\* parameters and the store's rows, or GET /health
Init ==
    /\ \/ /\ pc = "validate"
          /\ deptype \in DepTypes
          /\ compid \in CompIds
          /\ appid \in AppIds
          /\ db \in SeqsUpTo(DepRows, MaxRows)
       \/ /\ pc = "health"
          /\ deptype = <<>>
          /\ compid = None
          /\ appid = None
          /\ db = <<>>
    /\ HandlerEntry
    /\ inflight = <<>>
    /\ alone = <<>>

\* the request ends with an error response
Respond(code, msg) ==
    /\ pc' = "done"
    /\ status' = code
    /\ detail' = msg
    /\ data' = None

\* deptype: str = Query(..., regex="(?:license|cve)"): the framework rejects
\* a value the pattern does not match before it calls the handler
Validate ==
    /\ pc = "validate"
    /\ IF RegexMatch(deptype)
       THEN /\ pc' = "auth"
            /\ UNCHANGED resp
       ELSE Respond(HTTP_422_UNPROCESSABLE, <<"string does not match regex">>)
    /\ UNCHANGED <<hvars, cvars>>
    /\ UNCHANGED <<req, locals, hist>>

\* mutant: only an explicit status other than 200 is refused; a missing result
\* or an exception of the call lets the request through
Authorized_OnlyStatusRefused(result) == result # "403"

\* lines 154-160: a missing result, a status other than 200 and an exception
\* all end in HTTPException(401)
Authorized(result) == result = "200"

\* lines 152-168: the authorization call, then response_data = [],
\* no_of_retry = db_conn_retry, attempt = 1
Authorize(result) ==
    /\ pc = "auth"
    /\ authCalls' = authCalls + 1
    /\ authResult' = result
    /\ IF Authorized(result)
       THEN /\ pc' = "connect"
            /\ response_data' = <<>>
            /\ attempt' = 1
            /\ UNCHANGED resp
       ELSE /\ Respond(HTTP_401_UNAUTHORIZED,
                       <<"Authorization Failed:">> \o <<result>>)
            /\ UNCHANGED <<response_data, attempt>>
    /\ UNCHANGED <<hvars, cvars>>
    /\ UNCHANGED <<req, valid_url, rows, idx, sql, connected>>
    /\ UNCHANGED <<dbAttempts, sqlLog, vLog, headLog, sleeps, outcomes, fresh>>

no_of_retry == db_conn_retry

\* mutant: the bound is tested with <= (one attempt too many)
Retryable_OffByOne(err) == err = E_TRANSIENT /\ attempt <= no_of_retry

\* mutant: one attempt too few
Retryable_TooFew(err) == err = E_TRANSIENT /\ attempt < no_of_retry - 1

\* mutant: a bare except clause retries every exception
Retryable_AnyError(err) == attempt < no_of_retry

\* lines 259-260: except (InterfaceError, OperationalError) as ex:
\*                    if attempt < no_of_retry
Retryable(err) == err = E_TRANSIENT /\ attempt < no_of_retry

\* mutant: the connection is not released when an exception leaves the block
Except_KeepsConnection(err) ==
    /\ UNCHANGED connected
    /\ outcomes' = Append(outcomes, err)
    /\ IF Retryable(err)
       THEN /\ pc' = "sleep"
            /\ UNCHANGED resp
       ELSE Respond(HTTP_500_INTERNAL_SERVER_ERROR, <<err>>)

\* mutant: the database block sits inside the authorization try block, so
\* its exceptions leave as "Authorization Failed" (401)
Except_As401(err) ==
    /\ connected' = FALSE
    /\ outcomes' = Append(outcomes, err)
    /\ IF Retryable(err)
       THEN /\ pc' = "sleep"
            /\ UNCHANGED resp
       ELSE Respond(HTTP_401_UNAUTHORIZED, <<"Authorization Failed:">> \o <<err>>)

\* lines 259-279: an exception leaves the with block (the connection goes
\* back to the pool); an error of the retried classes with attempts left
\* goes to sleep, every other one becomes the 500 response
Except(err) ==
    /\ connected' = FALSE
    /\ outcomes' = Append(outcomes, err)
    /\ IF Retryable(err)
       THEN /\ pc' = "sleep"
            /\ UNCHANGED resp
       ELSE Respond(HTTP_500_INTERNAL_SERVER_ERROR, <<err>>)

\* lines 170-172: with engine.connect() as connection, conn.cursor()
Connect(out) ==
    /\ pc = "connect"
    /\ dbAttempts' = dbAttempts + 1
    /\ IF out = E_OK
       THEN /\ connected' = TRUE
            /\ pc' = "query"
            /\ UNCHANGED <<resp, outcomes>>
       ELSE Except(out)
    /\ UNCHANGED <<hvars, cvars>>
    /\ UNCHANGED <<req, attempt, response_data, valid_url, rows, idx, sql>>
    /\ UNCHANGED <<authCalls, authResult, sqlLog, vLog, headLog, sleeps, fresh>>

SQL_COMP == <<"SELECT packagename, packageversion, name, url, summary, '', purl, pkgtype FROM dm_componentdeps where compid = %s and deptype = %s">>
SQL_APP == <<"select distinct b.packagename, b.packageversion, b.name, b.url, b.summary, fulldomain(c.domainid, c.name), b.purl, b.pkgtype from dm.dm_applicationcomponent a, dm.dm_componentdeps b, dm.dm_component c where appid = %s and a.compid = b.compid and c.id = b.compid and b.deptype = %s">>

\* mutant: the component statement is the default when no id is supplied
SelectSql_DefaultComp(c, a) == IF a # None /\ c = None THEN SQL_APP ELSE SQL_COMP

\* mutant: the two branches are tested in the other order
SelectSql_AppFirst(c, a) ==
    IF a # None THEN SQL_APP ELSE IF c # None THEN SQL_COMP ELSE <<>>

\* lines 174-180: the statement and its id parameter
SelectSql(c, a) == IF c # None THEN SQL_COMP ELSE IF a # None THEN SQL_APP ELSE <<>>
SelectId(c, a) == IF c # None THEN c ELSE IF a # None THEN a ELSE c

\* line 182: params = tuple([id, 'license'])
Params(c, a) == <<SelectId(c, a), "license">>

\* what the store answers to the statement: the component statement selects
\* '' as its sixth column, the application statement fulldomain(...)
FetchAll(stmt) ==
    [i \in 1..Len(db) |->
        [db[i] EXCEPT !.fullcompname = IF stmt = SQL_COMP THEN <<>> ELSE @]]

\* lines 174-185: cursor.execute(sql, params), rows = cursor.fetchall(),
\* valid_url = {}.  The driver cannot run an empty statement with two
\* parameters: that execute raises, and not a connection error.
Query(out) ==
    /\ pc = "query"
    /\ sql' = SelectSql(compid, appid)
    /\ sql' = <<>> => out = E_OTHER
    /\ sqlLog' = Append(sqlLog, [sql |-> sql', params |-> Params(compid, appid)])
    /\ IF out = E_OK
       THEN /\ rows' = FetchAll(sql')
            /\ valid_url' = EmptyDict
            /\ idx' = 1
            /\ vLog' = <<>>
            /\ fresh' = <<>>
            /\ pc' = "rows"
            /\ UNCHANGED <<resp, connected, outcomes>>
       ELSE /\ Except(out)
            /\ UNCHANGED <<rows, valid_url, idx, vLog, fresh>>
    /\ UNCHANGED <<hvars, cvars>>
    /\ UNCHANGED <<req, attempt, response_data>>
    /\ UNCHANGED <<authCalls, authResult, dbAttempts, headLog, sleeps>>

\* lines 198-199: if (not url): url = 'https://spdx.org/licenses/'
DefaultUrl(u) == IF ~Truthy(u) THEN SPDX_URL ELSE Val(u)

\* lines 204-207: the url recorded for a name after its HEAD request
Validated(url, code) == IF code = "200" THEN url ELSE SPDX_URL

\* line 202: if (name not in valid_url)
NeedsHead(name) == name \notin DOMAIN valid_url

\* lines 211-220
LicenseEntry(row, url) ==
    [ packagename |-> row.packagename, packageversion |-> row.packageversion,
      name |-> row.name, url |-> url, summary |-> row.summary,
      fullcompname |-> row.fullcompname ]

\* lines 187-220, deptype == "license": one row of the for loop.  An
\* exception of requests.head is not of the retried classes.
LicenseRow(head) ==
    /\ pc = "rows"
    /\ idx <= Len(rows)
    /\ deptype = LICENSE
    /\ LET row == rows[idx]
           url == DefaultUrl(row.url)
       IN  IF NeedsHead(row.name)
           THEN /\ headLog' = Append(headLog,
                       [name |-> row.name, url |-> url, code |-> head])
                /\ IF head = "raise"
                   THEN /\ Except(E_OTHER)
                        /\ UNCHANGED <<valid_url, response_data, idx, fresh>>
                   ELSE /\ valid_url' = DictSet(valid_url, row.name, Validated(url, head))
                        /\ response_data' = Append(response_data,
                               LicenseEntry(row, valid_url'[row.name]))
                        /\ fresh' = Append(fresh,
                               LicenseEntry(row, valid_url'[row.name]))
                        /\ idx' = idx + 1
                        /\ UNCHANGED <<pc, resp, connected, outcomes>>
           ELSE /\ response_data' = Append(response_data,
                       LicenseEntry(row, valid_url[row.name]))
                /\ fresh' = Append(fresh, LicenseEntry(row, valid_url[row.name]))
                /\ idx' = idx + 1
                /\ UNCHANGED <<pc, resp, connected, outcomes, valid_url, headLog>>
    /\ UNCHANGED <<hvars, cvars>>
    /\ UNCHANGED <<req, attempt, rows, sql>>
    /\ UNCHANGED <<authCalls, authResult, dbAttempts, sqlLog, vLog, sleeps>>

V_SQL_PKG == <<"select id, summary, risklevel from dm.dm_vulns where packagename = %s and packageversion = %s">>
V_SQL_PURL == <<"select id, summary,risklevel from dm.dm_vulns where purl = %s">>

\* lines 228-229: if ('?' in purl): purl = purl.split('?')[0]
StripQualifiers(purl) == IF Contains(purl, "?") THEN SplitFirst(purl, "?") ELSE purl

\* lines 222-231: the secondary statement and its parameters
VQuery(row) ==
    IF isBlank(row.purl)
    THEN [sql |-> V_SQL_PKG, params |-> <<row.packagename, row.packageversion>>]
    ELSE [sql |-> V_SQL_PURL, params |-> <<StripQualifiers(Val(row.purl))>>]

\* what the store answers to a secondary statement
VMatches(q, v) ==
    IF q.sql = V_SQL_PKG
    THEN v.packagename = q.params[1] /\ v.packageversion = q.params[2]
    ELSE v.purl = q.params[1]

VFetchAll(q) == SelectSeq(dm_vulns, LAMBDA v : VMatches(q, v))

\* lines 238-253
VulnEntry(row, v_row) ==
    [ packagename |-> row.packagename, packageversion |-> row.packageversion,
      name |-> v_row.id, url |-> OSV_URL \o v_row.id, summary |-> v_row.summary,
      fullcompname |-> row.fullcompname, risklevel |-> v_row.risklevel ]

\* lines 237-253: for v_row in v_rows: response_data.append(...)
VulnEntries(row, v_rows) == [i \in 1..Len(v_rows) |-> VulnEntry(row, v_rows[i])]

\* lines 187-196 and 221-254, deptype other than "license": one row of the
\* for loop, with its secondary query
CveRow(out) ==
    /\ pc = "rows"
    /\ idx <= Len(rows)
    /\ deptype # LICENSE
    /\ LET row == rows[idx]
           q == VQuery(row)
       IN  /\ vLog' = Append(vLog, q)
           /\ IF out = E_OK
              THEN /\ response_data' = response_data \o VulnEntries(row, VFetchAll(q))
                   /\ fresh' = fresh \o VulnEntries(row, VFetchAll(q))
                   /\ idx' = idx + 1
                   /\ UNCHANGED <<pc, resp, connected, outcomes>>
              ELSE /\ Except(out)
                   /\ UNCHANGED <<response_data, idx, fresh>>
    /\ UNCHANGED <<hvars, cvars>>
    /\ UNCHANGED <<req, attempt, valid_url, rows, sql>>
    /\ UNCHANGED <<authCalls, authResult, dbAttempts, sqlLog, headLog, sleeps>>

\* lines 256-257: cursor.close(); return {'data': response_data}
Return(out) ==
    /\ pc = "rows"
    /\ idx > Len(rows)
    /\ IF out = E_OK
       THEN /\ pc' = "done"
            /\ status' = HTTP_200_OK
            /\ data' = Some(response_data)
            /\ connected' = FALSE
            /\ outcomes' = Append(outcomes, E_OK)
            /\ UNCHANGED detail
       ELSE Except(out)
    /\ UNCHANGED <<hvars, cvars>>
    /\ UNCHANGED <<req, attempt, response_data, valid_url, rows, idx, sql>>
    /\ UNCHANGED <<authCalls, authResult, dbAttempts, sqlLog, vLog, headLog, sleeps, fresh>>

\* mutant: the retry does not count the attempt
Sleep_NoIncrement ==
    /\ pc = "sleep"
    /\ sleeps' = sleeps + 1
    /\ pc' = "connect"
    /\ UNCHANGED <<hvars, cvars>>
    /\ UNCHANGED <<req, resp, attempt, response_data, valid_url, rows, idx, sql, connected>>
    /\ UNCHANGED <<authCalls, authResult, dbAttempts, sqlLog, vLog, headLog, outcomes, fresh>>

\* mutant: the retry starts the handler over, authorization included
Sleep_Reauthorize ==
    /\ pc = "sleep"
    /\ sleeps' = sleeps + 1
    /\ attempt' = attempt + 1
    /\ pc' = "auth"
    /\ UNCHANGED <<hvars, cvars>>
    /\ UNCHANGED <<req, resp, response_data, valid_url, rows, idx, sql, connected>>
    /\ UNCHANGED <<authCalls, authResult, dbAttempts, sqlLog, vLog, headLog, outcomes, fresh>>

\* lines 261-271: logging.error(...), sleep(0.2), attempt += 1, continue
Sleep ==
    /\ pc = "sleep"
    /\ sleeps' = sleeps + 1
    /\ attempt' = attempt + 1
    /\ pc' = "connect"
    /\ UNCHANGED <<hvars, cvars>>
    /\ UNCHANGED <<req, resp, response_data, valid_url, rows, idx, sql, connected>>
    /\ UNCHANGED <<authCalls, authResult, dbAttempts, sqlLog, vLog, headLog, outcomes, fresh>>

\* ---------------------------------------------------------------- /health
\* the two bodies of the health route, as lists of (key, value) pairs
BODY_UP == << <<"status", <<"UP">> >>, <<"service_name", service_name>> >>
BODY_DOWN == << <<"status", <<"DOWN">> >> >>

\* values cursor.rowcount may have after the probe statement
RowCounts == {-1, 0, 1}

\* the health route answers
HealthRespond(code, body) ==
    /\ pc' = "done"
    /\ status' = code
    /\ health_body' = Some(body)
    /\ connected' = FALSE

\* lines 98-101: except Exception: status_code = 503, {"status": 'DOWN'}
HealthExcept ==
    /\ probe' = "raise"
    /\ HealthRespond(HTTP_503_SERVICE_UNAVAILABLE, BODY_DOWN)

\* lines 89-91: with engine.connect() as connection, conn.cursor()
HealthConnect(out) ==
    /\ pc = "health"
    /\ IF out = E_OK
       THEN /\ pc' = "health_probe"
            /\ connected' = TRUE
            /\ UNCHANGED <<status, hvars>>
       ELSE HealthExcept
    /\ UNCHANGED <<req, detail, data, hist, cvars>>
    /\ UNCHANGED <<attempt, response_data, valid_url, rows, idx, sql>>

\* mutant: the row count is tested with >= (rowcount 0 counts as up)
ProbeUp_NonNegative(rowcount) == rowcount >= 0

\* line 93: if cursor.rowcount > 0
ProbeUp(rowcount) == rowcount > 0

\* lines 92-96: cursor.execute('SELECT 1'), then the answer by cursor.rowcount
HealthProbe(out, rowcount) ==
    /\ pc = "health_probe"
    /\ IF out = E_OK
       THEN /\ probe' = (IF rowcount > 0 THEN "rows" ELSE "no rows")
            /\ IF ProbeUp(rowcount)
               THEN HealthRespond(HTTP_200_OK, BODY_UP)
               ELSE HealthRespond(HTTP_503_SERVICE_UNAVAILABLE, BODY_DOWN)
       ELSE HealthExcept
    /\ UNCHANGED <<req, detail, data, hist, cvars>>
    /\ UNCHANGED <<attempt, response_data, valid_url, rows, idx, sql>>

Next ==
    \/ Validate
    \/ \E result \in AuthOutcomes : Authorize(result)
    \/ \E out \in DbOutcomes : Connect(out)
    \/ \E out \in DbOutcomes : Query(out)
    \/ \E head \in HeadOutcomes : LicenseRow(head)
    \/ \E out \in DbOutcomes : CveRow(out)
    \/ \E out \in DbOutcomes : Return(out)
    \/ Sleep
    \/ \E out \in DbOutcomes : HealthConnect(out)
    \/ \E out \in DbOutcomes, rowcount \in RowCounts : HealthProbe(out, rowcount)

Spec == Init /\ [][Next]_vars

\* every external call returns or raises and the handler's code runs on: a
\* request that can take a step eventually takes one
FairSpec == Spec /\ WF_vars(Next)

\* ------------------------------------------------- requests in flight
\* Several calls of getCompPkgDeps at once, each past authorization and in
\* the license branch.  What a call keeps is what the function assigns:
\* its own attempt, rows, valid_url and response_data.
Requests == {"A", "B"}

\* rows that share a license name and differ in url
SharedNameRows == {row \in DepRows : row.packagename = <<"flask">>}

\* lines 162-167: response_data = [], attempt = 1
ReqStart(d) ==
    [ pc |-> "connect", db |-> d, attempt |-> 1, rows |-> <<>>, idx |-> 0,
      valid_url |-> EmptyDict, response_data |-> <<>>, heads |-> {},
      status |-> 0, data |-> None ]

\* lines 259-279 for the call with locals s
ReqExcept(s, err) ==
    IF err = E_TRANSIENT /\ s.attempt < no_of_retry
    THEN [s EXCEPT !.pc = "sleep"]
    ELSE [s EXCEPT !.pc = "done", !.status = HTTP_500_INTERNAL_SERVER_ERROR]

\* lines 170-186: connect, execute, fetchall, valid_url = {}
ReqConnect(s, out) ==
    IF out = E_OK
    THEN [s EXCEPT !.pc = "rows", !.rows = s.db, !.idx = 1,
                   !.valid_url = EmptyDict]
    ELSE ReqExcept(s, out)

\* lines 187-220: one row of the for loop, looking names up in memo
ReqLicenseRow(s, memo, head) ==
    LET row == s.rows[s.idx]
        url == DefaultUrl(row.url)
        asked == [s EXCEPT !.heads = @ \cup
                     {[name |-> row.name, url |-> url, code |-> head]}]
    IN  IF row.name \notin DOMAIN memo
        THEN IF head = "raise"
             THEN ReqExcept(asked, E_OTHER)
             ELSE [asked EXCEPT
                      !.valid_url = DictSet(memo, row.name, Validated(url, head)),
                      !.response_data = Append(@,
                          LicenseEntry(row, Validated(url, head))),
                      !.idx = @ + 1]
        ELSE [s EXCEPT
                 !.response_data = Append(@, LicenseEntry(row, memo[row.name])),
                 !.idx = @ + 1]

\* lines 256-257: cursor.close(), return
ReqReturn(s, out) ==
    IF out = E_OK
    THEN [s EXCEPT !.pc = "done", !.status = HTTP_200_OK,
                   !.data = Some(s.response_data)]
    ELSE ReqExcept(s, out)

\* lines 269-271: sleep(0.2), attempt += 1, continue
ReqSleep(s) == [s EXCEPT !.pc = "connect", !.attempt = @ + 1]

\* mutant: valid_url is one dict of the module, the one the first call filled
Memo_ModuleLevel(r) == inflight["A"].valid_url

\* line 185: valid_url = {} is a local of the call
Memo(r) == inflight[r].valid_url

\* call r takes a step to locals t; by itself it would get to u
ReqStep(r, t, u) ==
    /\ inflight' = [inflight EXCEPT ![r] = t]
    /\ alone' = [alone EXCEPT ![r] = u]
    /\ UNCHANGED <<req, pc, resp, locals, hist, hvars>>

ConcConnect(r, out) ==
    /\ inflight[r].pc = "connect"
    /\ ReqStep(r, ReqConnect(inflight[r], out), ReqConnect(alone[r], out))

ConcLicenseRow(r, head) ==
    /\ inflight[r].pc = "rows"
    /\ inflight[r].idx <= Len(inflight[r].rows)
    /\ ReqStep(r, ReqLicenseRow(inflight[r], Memo(r), head),
                  ReqLicenseRow(alone[r], alone[r].valid_url, head))

ConcReturn(r, out) ==
    /\ inflight[r].pc = "rows"
    /\ inflight[r].idx > Len(inflight[r].rows)
    /\ ReqStep(r, ReqReturn(inflight[r], out), ReqReturn(alone[r], out))

ConcSleep(r) ==
    /\ inflight[r].pc = "sleep"
    /\ ReqStep(r, ReqSleep(inflight[r]), ReqSleep(alone[r]))

\* the calls arrive together and ask for the same component: the query of
\* each returns the same rows
ConcInit ==
    /\ pc = "concurrent"
    /\ deptype = LICENSE
    /\ compid = Some(42)
    /\ appid = None
    /\ db = <<>>
    /\ HandlerEntry
    /\ \E d \in SeqsUpTo(SharedNameRows, MaxRows) :
           inflight = [r \in Requests |-> ReqStart(d)]
    /\ alone = inflight

ConcNext ==
    \E r \in Requests :
        \/ \E out \in DbOutcomes : ConcConnect(r, out)
        \/ \E head \in HeadOutcomes : ConcLicenseRow(r, head)
        \/ \E out \in DbOutcomes : ConcReturn(r, out)
        \/ ConcSleep(r)

ConcSpec == ConcInit /\ [][ConcNext]_vars

\* ------------------------------------------------------------------ claims
Last(q) == q[Len(q)]

\* C1: when the authorization call answers a status other than 200, answers
\* nothing or raises, the request ends with 401 and has acquired no database
\* connection and executed no SQL statement.
C1_AuthFailureIs401WithoutDb ==
    (authCalls > 0 /\ authResult # "200") =>
        /\ pc = "done"
        /\ status = HTTP_401_UNAUTHORIZED
        /\ dbAttempts = 0
        /\ ~connected
        /\ sqlLog = <<>>
        /\ vLog = <<>>

C1_Witness ==
    /\ authResult = "raise"
    /\ pc = "done"
    /\ status = HTTP_401_UNAUTHORIZED

\* C2: transient failures on attempts 1 and 2 are followed by a third
\* attempt; when that one succeeds the response is 200 without any error
\* detail, and when it fails transiently too the response is 500.
C2_RetryOutcome ==
    /\ outcomes = <<E_TRANSIENT, E_TRANSIENT>> => pc # "done" /\ status = 0
    /\ outcomes = <<E_TRANSIENT, E_TRANSIENT, E_OK>> =>
           pc = "done" /\ status = HTTP_200_OK /\ detail = <<>> /\ data # None
    /\ outcomes = <<E_TRANSIENT, E_TRANSIENT, E_TRANSIENT>> =>
           pc = "done" /\ status = HTTP_500_INTERNAL_SERVER_ERROR /\ data = None

C2_Witness ==
    /\ outcomes = <<E_TRANSIENT, E_TRANSIENT, E_OK>>
    /\ status = HTTP_200_OK
    /\ dbAttempts = 3

\* the counters of the retry loop in every state after authorization
RetryCounters ==
    /\ attempt \in 0..db_conn_retry
    /\ dbAttempts <= db_conn_retry
    /\ attempt = 0 => dbAttempts = 0 /\ sleeps = 0
    /\ attempt > 0 => sleeps = attempt - 1
    /\ attempt > 0 => dbAttempts = (IF pc = "connect" THEN attempt - 1 ELSE attempt)

\* a step that changes the attempt counter either starts the loop at 1 or is
\* the sleep after a transient failure of attempt n < 3, and adds exactly 1
RetryStep ==
    /\ attempt' # attempt =>
          \/ attempt = 0 /\ attempt' = 1 /\ pc = "auth"
          \/ /\ attempt' = attempt + 1
             /\ attempt < db_conn_retry
             /\ pc = "sleep"
             /\ Last(outcomes) = E_TRANSIENT
             /\ sleeps' = sleeps + 1
    /\ sleeps' # sleeps => attempt' = attempt + 1 /\ sleeps' = sleeps + 1
    /\ dbAttempts' # dbAttempts => dbAttempts' = attempt /\ pc = "connect"

\* C3: the attempt counter starts at 1, grows by exactly 1 and only after a
\* transient failure with attempt < 3, every re-attempt follows exactly one
\* sleep, and no request makes more than 3 database attempts.
C3_RetryStateMachine == [](RetryCounters) /\ [][RetryStep]_vars

C3_Witness ==
    /\ attempt = db_conn_retry
    /\ sleeps = 2
    /\ dbAttempts = 3
    /\ pc = "rows"

\* C4: an exception that is neither InterfaceError nor OperationalError ends
\* the request at once with 500: it is the last attempt's outcome, no sleep
\* and no attempt follows it, at any attempt number.
C4_NonTransientNeverRetried ==
    \A i \in 1..Len(outcomes) :
        outcomes[i] = E_OTHER =>
            /\ i = Len(outcomes)
            /\ pc = "done"
            /\ status = HTTP_500_INTERNAL_SERVER_ERROR
            /\ attempt = i
            /\ dbAttempts = i
            /\ sleeps = i - 1

C4_Witness ==
    /\ outcomes = <<E_TRANSIENT, E_OTHER>>
    /\ status = HTTP_500_INTERNAL_SERVER_ERROR
    /\ sleeps = 1

\* the row the i-th entry of a license response was made from: every pass
\* over the rows appends one entry per row, in row order
RowOf(i) == rows[((i - 1) % Len(rows)) + 1]

HeadAnswered200(url) ==
    \E j \in 1..Len(headLog) : headLog[j].url = url /\ headLog[j].code = "200"

\* C5: in a 200 response to deptype=license every entry's url is non-empty
\* and is either the url of the entry's own row, which a HEAD request
\* answered with 200, or the SPDX fallback; also for a row that shares its
\* license name with an earlier row and has another url.
C5_LicenseUrlOwnOrFallback ==
    (pc = "done" /\ status = HTTP_200_OK /\ deptype = LICENSE) =>
        \A i \in 1..Len(Val(data)) :
            LET e == Val(data)[i]
            IN  /\ e.url # <<>>
                /\ \/ e.url = SPDX_URL
                   \/ RowOf(i).url = Some(e.url) /\ HeadAnswered200(e.url)

\* C6: within one deptype=license request no license name is the subject of
\* more than one HEAD request, whatever the number of database attempts.
C6_HeadOncePerName ==
    \A i, j \in 1..Len(headLog) : headLog[i].name = headLog[j].name => i = j

\* a step whose HEAD request failed: a status other than 200, or an exception
HeadFailed ==
    /\ Len(headLog') = Len(headLog) + 1
    /\ Last(headLog').code # "200"

\* C7: a failed HEAD request (status other than 200, or an exception) never
\* becomes an error response: the row's entry is appended with the SPDX
\* fallback url and the request goes on.
C7_HeadFailureNotSurfaced ==
    [][HeadFailed =>
          /\ pc' = "rows"
          /\ status' = 0
          /\ response_data' # response_data
          /\ Last(response_data').url = SPDX_URL]_vars

\* blank as the claim words it: null, empty or whitespace only
Blank(o) == o = None \/ \A i \in 1..Len(Val(o)) : Val(o)[i] \in Whitespace

\* position of the first "?" of s (Len(s) + 1 without one)
FirstQ(s) ==
    IF \E i \in 1..Len(s) : s[i] = "?"
    THEN CHOOSE i \in 1..Len(s) : s[i] = "?" /\ \A j \in 1..(i - 1) : s[j] # "?"
    ELSE Len(s) + 1

\* the key the claim gives a row's secondary query
ClaimedKey(row) ==
    IF Blank(row.purl)
    THEN [sql |-> V_SQL_PKG, params |-> <<row.packagename, row.packageversion>>]
    ELSE [sql |-> V_SQL_PURL,
          params |-> <<SubSeq(Val(row.purl), 1, FirstQ(Val(row.purl)) - 1)>>]

\* C8: in a deptype=cve request the rows are queried in order, one secondary
\* query per row: by (packagename, packageversion) when the row's purl is
\* blank, else by the purl cut before its first "?".
C8_SecondaryQueryKey ==
    deptype = CVE =>
        /\ Len(vLog) <= Len(rows)
        /\ \A j \in 1..Len(vLog) : vLog[j] = ClaimedKey(rows[j])
        /\ pc = "rows" => Len(vLog) = idx - 1
        /\ (pc = "done" /\ status = HTTP_200_OK) => Len(vLog) = Len(rows)

C8_Witness ==
    /\ deptype = CVE
    /\ pc = "done"
    /\ status = HTTP_200_OK
    /\ Len(rows) = 2
    /\ rows[1].purl = Some(<<" ">>)
    /\ vLog[1].sql = V_SQL_PKG
    /\ rows[2].purl = Some(<<"p", "?", "q">>)
    /\ vLog[2] = [sql |-> V_SQL_PURL, params |-> << <<"p">> >>]

\* the entries the claim gives a list of rows of a deptype=cve request
RECURSIVE ClaimedVulnEntries(_)
ClaimedVulnEntries(rs) ==
    IF rs = <<>> THEN <<>>
    ELSE LET row == Head(rs)
             found == SelectSeq(dm_vulns, LAMBDA v : VMatches(ClaimedKey(row), v))
         IN  [i \in 1..Len(found) |->
                 [ packagename |-> row.packagename,
                   packageversion |-> row.packageversion,
                   fullcompname |-> row.fullcompname,
                   name |-> found[i].id,
                   url |-> <<"https://osv.dev/vulnerability/">> \o found[i].id ]]
             \o ClaimedVulnEntries(Tail(rs))

Carried(e) ==
    [ packagename |-> e.packagename, packageversion |-> e.packageversion,
      fullcompname |-> e.fullcompname, name |-> e.name, url |-> e.url ]

\* C9: the data list of a 200 response is in database result order: for
\* deptype=license exactly one entry per fetched row, in row order; for
\* deptype=cve, row after row, exactly one entry per matching vulnerability
\* record, with the row's package fields, the id as name and the osv.dev url.
C9_DataInRowOrder ==
    (pc = "done" /\ status = HTTP_200_OK) =>
        LET d == Val(data)
        IN  /\ deptype = LICENSE =>
                /\ Len(d) = Len(rows)
                /\ \A i \in 1..Len(d) :
                      /\ d[i].packagename = rows[i].packagename
                      /\ d[i].packageversion = rows[i].packageversion
                      /\ d[i].name = rows[i].name
                      /\ d[i].fullcompname = rows[i].fullcompname
            /\ deptype = CVE =>
                [i \in 1..Len(d) |-> Carried(d[i])] = ClaimedVulnEntries(rows)

\* C10: a deptype other than exactly license or cve is rejected before the
\* authorization call and before any database work, and the row loop runs
\* only with deptype license or cve.
OnDepsRoute == pc \notin {"health", "health_probe"} /\ health_body = None
C10_DeptypeValidated ==
    /\ (OnDepsRoute /\ deptype \notin {LICENSE, CVE} /\ pc # "validate") =>
           /\ pc = "done"
           /\ status = HTTP_422_UNPROCESSABLE
           /\ authCalls = 0
           /\ dbAttempts = 0
    /\ pc = "rows" => deptype \in {LICENSE, CVE}

\* C11: once authorization has succeeded the request ends either with 200
\* and a data list or with 500 and a detail string; an attempt that ends with
\* an exception and is not retried gives 500, and 401 is never the answer.
C11_AfterAuth200Or500 ==
    authResult = "200" =>
        /\ status \in {0, HTTP_200_OK, HTTP_500_INTERNAL_SERVER_ERROR}
        /\ pc = "done" =>
              \/ status = HTTP_200_OK /\ data # None /\ detail = <<>>
              \/ status = HTTP_500_INTERNAL_SERVER_ERROR /\ data = None
                     /\ detail # <<>>
        /\ (pc = "done" /\ Last(outcomes) # E_OK) =>
              status = HTTP_500_INTERNAL_SERVER_ERROR
        /\ status = HTTP_200_OK => Last(outcomes) = E_OK

C11_Witness ==
    /\ authResult = "200"
    /\ pc = "done"
    /\ status = HTTP_500_INTERNAL_SERVER_ERROR
    /\ outcomes = <<E_TRANSIENT, E_TRANSIENT, E_TRANSIENT>>
    /\ detail = <<E_TRANSIENT>>

\* C12: every executed dependency statement is the component statement with
\* compid when compid is supplied (with or without appid) and the application
\* statement with appid when only appid is supplied; its second parameter is
\* the literal 'license' on every attempt, whatever deptype was requested.
C12_QuerySelection ==
    \A i \in 1..Len(sqlLog) :
        /\ sqlLog[i].params[2] = "license"
        /\ compid # None =>
              sqlLog[i].sql = SQL_COMP /\ sqlLog[i].params[1] = compid
        /\ (compid = None /\ appid # None) =>
              sqlLog[i].sql = SQL_APP /\ sqlLog[i].params[1] = appid

C12_Witness ==
    /\ compid = Some(42)
    /\ appid = Some(7)
    /\ deptype = CVE
    /\ Len(sqlLog) = 2
    /\ sqlLog[2] = [sql |-> SQL_COMP, params |-> <<Some(42), "license">>]
    /\ pc = "rows"

\* C13: the health route answers 200 with status UP and the service name
\* exactly when the liveness probe succeeds with at least one row, and 503
\* with only status DOWN when the probe raises or returns no rows.
C13_HealthUpIffProbeRows ==
    (pc = "done" /\ health_body # None) =>
        /\ probe \in {"rows", "no rows", "raise"}
        /\ probe = "rows" <=>
              (status = HTTP_200_OK /\ health_body = Some(BODY_UP))
        /\ probe # "rows" =>
              /\ status = HTTP_503_SERVICE_UNAVAILABLE
              /\ health_body = Some(<< <<"status", <<"DOWN">> >> >>)
        /\ ~connected

C13_Witness ==
    /\ pc = "done"
    /\ probe = "no rows"
    /\ status = HTTP_503_SERVICE_UNAVAILABLE
    /\ health_body = Some(BODY_DOWN)

\* C14: the data list of a request that succeeds on a later attempt is the
\* list its successful attempt built from the fetched rows; entries appended
\* by an attempt that failed transiently do not appear in the 200 response.
C14_RetryTransparentData ==
    (pc = "done" /\ status = HTTP_200_OK /\ data # None) => Val(data) = fresh

\* C15: the authorization call is made exactly once per request, before the
\* first database attempt, and a retry of the database sequence does not
\* repeat it.
C15_AuthorizedOnce ==
    /\ authCalls <= 1
    /\ dbAttempts > 0 => authCalls = 1 /\ authResult = "200"
    /\ ( \/ pc \in {"connect", "query", "rows", "sleep"}
         \/ pc = "done" /\ data # None
         \/ pc = "done" /\ status \in {HTTP_401_UNAUTHORIZED,
                                       HTTP_500_INTERNAL_SERVER_ERROR} )
       => authCalls = 1

C15_Witness ==
    /\ authCalls = 1
    /\ attempt = db_conn_retry
    /\ dbAttempts = db_conn_retry
    /\ sleeps = 2
    /\ pc = "done"

NoIdRequest == compid = None /\ appid = None /\ deptype \in {LICENSE, CVE}

\* C17 as claimed: a request without compid and appid (valid deptype) passes
\* validation, is authorized, executes no statement but the empty one, and
\* ends with 500 after exactly one database attempt.
C17_NoIdOneAttempt500 ==
    (NoIdRequest /\ pc = "done") =>
        /\ status # HTTP_422_UNPROCESSABLE
        /\ authResult = "200" =>
              /\ status = HTTP_500_INTERNAL_SERVER_ERROR
              /\ dbAttempts = 1
              /\ \A i \in 1..Len(sqlLog) : sqlLog[i].sql = <<>>

\* C17 (amended): a request without compid and appid is not rejected at
\* validation and never answered 200; once authorized it ends with 500; the
\* empty statement is executed at most once, its error is not retried and
\* ends the request in that attempt; attempts before it are transient
\* failures of engine.connect().
C17_NoIdEndsWith500 ==
    NoIdRequest =>
        /\ status \notin {HTTP_422_UNPROCESSABLE, HTTP_200_OK}
        /\ pc # "rows"
        /\ (pc = "done" /\ authResult = "200") =>
              status = HTTP_500_INTERNAL_SERVER_ERROR
        /\ Len(sqlLog) <= 1
        /\ Len(sqlLog) = 1 =>
              /\ sqlLog[1].sql = <<>>
              /\ pc = "done"
              /\ Last(outcomes) = E_OTHER
              /\ dbAttempts = Len(outcomes)
              /\ \A i \in 1..(Len(outcomes) - 1) : outcomes[i] = E_TRANSIENT

C17_Witness ==
    /\ NoIdRequest
    /\ pc = "done"
    /\ status = HTTP_500_INTERNAL_SERVER_ERROR
    /\ outcomes = <<E_TRANSIENT, E_OTHER>>
    /\ dbAttempts = 2
    /\ sqlLog = << [sql |-> <<>>, params |-> <<None, "license">>] >>

\* C19: a request holds a pooled connection only between a successful
\* engine.connect() and the end of that attempt's with block: none is held
\* when the next connection is acquired (so never two at once), none while
\* sleeping between attempts, and none once the response is produced,
\* whichever way the attempt ended.
C19_ConnectionScoped ==
    /\ connected <=> pc \in {"query", "rows", "health_probe"}
    /\ pc \in {"validate", "auth", "connect", "sleep", "done", "health"}
          => ~connected

C19_Witness ==
    /\ pc = "sleep"
    /\ ~connected
    /\ outcomes = <<E_TRANSIENT, E_TRANSIENT>>
    /\ fresh # <<>>
    /\ dbAttempts = 2

\* C18: a request the handler has started on eventually ends with 200, 401
\* or 500, given that every external call returns or raises. The retry loop
\* cannot run forever: every step either ends the request, moves on within
\* the current iteration, or starts the next iteration with the attempt
\* counter one higher, and the counter never passes the bound 3.
LoopSize == MaxRows + 6
Variant ==
    CASE pc = "validate" -> (db_conn_retry + 1) * LoopSize + 2
      [] pc = "auth" -> (db_conn_retry + 1) * LoopSize + 1
      [] pc = "connect" -> (db_conn_retry - attempt) * LoopSize + MaxRows + 5
      [] pc = "query" -> (db_conn_retry - attempt) * LoopSize + MaxRows + 4
      [] pc = "rows" -> (db_conn_retry - attempt) * LoopSize + 2 + (Len(rows) + 1 - idx)
      [] pc = "sleep" -> (db_conn_retry - attempt) * LoopSize + 1
      [] pc = "health" -> 3
      [] pc = "health_probe" -> 2
      [] pc = "done" -> 0

IterationStep ==
    \/ pc' = "done"
    \/ pc = "auth" /\ attempt' = 1 /\ pc' = "connect"
    \/ attempt' = attempt /\ Variant' < Variant
    \/ attempt' = attempt + 1 /\ attempt' <= db_conn_retry /\ pc = "sleep" /\ pc' = "connect"

C18_Terminates ==
    /\ (pc = "auth") ~> (pc = "done" /\ status \in {HTTP_200_OK, HTTP_401_UNAUTHORIZED, HTTP_500_INTERNAL_SERVER_ERROR})
    /\ [](Variant >= 0 /\ attempt <= db_conn_retry)
    /\ [][Variant' < Variant /\ IterationStep]_vars

C18_Witness ==
    /\ pc = "done"
    /\ status = HTTP_500_INTERNAL_SERVER_ERROR
    /\ attempt = db_conn_retry
    /\ sleeps = db_conn_retry - 1
    /\ dbAttempts = db_conn_retry

\* C16: with several requests in flight, no request's memo, attempt counter
\* or response list is touched by another: every name in a request's memo was
\* validated by a HEAD request of that same request, and at every moment the
\* request's locals and response are those it has when it runs by itself and
\* gets the same answers from the database and the license server.
ValidatedBySelf(s) ==
    \A n \in DOMAIN s.valid_url :
        \E h \in s.heads :
            /\ h.name = n
            /\ h.code # "raise"
            /\ s.valid_url[n] = Validated(h.url, h.code)

C16_RequestsIsolated ==
    pc = "concurrent" =>
        \A r \in Requests :
            /\ inflight[r] = alone[r]
            /\ ValidatedBySelf(inflight[r])

C16_Witness ==
    /\ pc = "concurrent"
    /\ inflight["A"].pc = "rows" /\ inflight["B"].pc = "rows"
    /\ inflight["A"].idx = 2 /\ inflight["B"].idx = 2
    /\ inflight["A"].valid_url = DictSet(EmptyDict, <<"MIT">>, URL_MIT)
    /\ inflight["B"].valid_url = DictSet(EmptyDict, <<"MIT">>, SPDX_URL)
    /\ inflight["A"].attempt = 2 /\ inflight["B"].attempt = 1
    /\ Len(inflight["B"].rows) = 2

=============================================================================
